---- MODULE Spec2Model ----
(***************************************************************************)
(* A model of the relay/command engine of mesh.py: the packet router       *)
(* MeshtasticBot.on_receive, the in-band command processor, the node       *)
(* directory MeshtasticDB and the outbound bridge TelegramBot.echo.        *)
(*                                                                         *)
(* Representation.  A Python str is a sequence of one-character strings,   *)
(* so that startswith and "%s: %s" are computed, not looked up.  A Python  *)
(* dict is a function whose domain is the set of keys present, so that     *)
(* d.get(k, default) is a test of DOMAIN d.  None, where a str is          *)
(* expected, is the one-element sequence PyNone, which no str equals.  A   *)
(* datetime is represented by its POSIX timestamp.                         *)
(***************************************************************************)
EXTENDS Integers, Sequences, FiniteSets, TLC

VARIABLES
    nodes,          \* interface.nodes: the radio connector's live node snapshot
    db_nodes,       \* table MeshtasticNodeRecord, keyed by nodeId
    db_messages,    \* table MeshtasticMessageRecord, in insertion order
    db_locations,   \* table MeshtasticLocationRecord, in insertion order
    clock,          \* time.time(), in whole seconds
    ev,             \* the event handled last
    out,            \* what handling it did, in order: commits and sends
    raised,         \* the exception that left the handler, "" when none
    failed          \* the directory operation that raised in it, "" when none

vars == <<nodes, db_nodes, db_messages, db_locations, clock, ev, out, raised, failed>>

----------------------------------------------------------------------------
(* Bounds of the model. *)

\* The events handled in one behaviour; the clock advances by one with each.
MaxClock == 3

----------------------------------------------------------------------------
(* Python values. *)

EmptyDict == [k \in {} |-> 0]

PyNone == <<"None">>

Has(d, k) == k \in DOMAIN d

Get(d, k, default) == IF k \in DOMAIN d THEN d[k] ELSE default

Put(d, k, v) == [j \in DOMAIN d \cup {k} |-> IF j = k THEN v ELSE d[j]]

\* str.startswith
StartsWith(s, prefix) ==
    Len(s) >= Len(prefix) /\ SubSeq(s, 1, Len(prefix)) = prefix

\* str(x) of a str or None, as "%s" formats it
Str(x) == IF x = PyNone THEN <<"N", "o", "n", "e">> ELSE x

Digit(d) == CASE d = 0 -> "0" [] d = 1 -> "1" [] d = 2 -> "2" [] d = 3 -> "3"
              [] d = 4 -> "4" [] d = 5 -> "5" [] d = 6 -> "6" [] d = 7 -> "7"
              [] d = 8 -> "8" [] d = 9 -> "9"

RECURSIVE NatToStr(_)
NatToStr(n) == IF n < 10 THEN <<Digit(n)>>
               ELSE Append(NatToStr(n \div 10), Digit(n % 10))

\* str(i) of an int
IntToStr(i) == IF i < 0 THEN <<"-">> \o NatToStr(-i) ELSE NatToStr(i)

\* "%s: %s" % (a, b)
Format(a, b) == Str(a) \o <<":", " ">> \o Str(b)

\* humanize.intcomma of a non-negative int: groups of three digits
RECURSIVE IntComma(_)
IntComma(n) ==
    IF n < 1000 THEN NatToStr(n)
    ELSE IntComma(n \div 1000)
         \o <<",", Digit((n % 1000) \div 100), Digit((n % 100) \div 10), Digit(n % 10)>>

\* round() of a length given in millimetres, to whole metres, half to even
Round(mm) ==
    LET q == mm \div 1000
        r == mm % 1000
    IN  IF r > 500 \/ (r = 500 /\ q % 2 = 1) THEN q + 1 ELSE q

\* datetime.fromtimestamp: a datetime is represented by its timestamp
fromtimestamp(t) == t

----------------------------------------------------------------------------
(* Constants of the program and the values the events are drawn from. *)

\* the literal '^all' of on_receive
BroadcastLiteral == <<"^", "a", "l", "l">>

\* meshtastic.BROADCAST_ADDR
MESHTASTIC_BROADCAST_ADDR == <<"^", "a", "l", "l">>

\* config['Telegram']['Room']
meshtastic_room == <<"-", "1", "2">>

abc == <<"!", "a", "b", "c">>
def == <<"!", "d", "e", "f">>

NodeIds == {abc, def}

hello == <<"h", "e", "l", "l", "o">>
distance_please ==
    <<"/", "d", "i", "s", "t", "a", "n", "c", "e", " ", "p", "l", "e", "a", "s", "e">>
ping == <<"/", "p", "i", "n", "g">>
foo == <<"/", "f", "o", "o">>

MeshTexts == {hello, distance_please, ping, foo}

Alice == <<"A", "l", "i", "c", "e">>
Bob == <<"B", "o", "b">>
TBEAM == <<"T", "B", "E", "A", "M">>
TLORA == <<"T", "L", "O", "R", "A">>

Carol == <<"C", "a", "r", "o", "l">>

\* the 'user' dicts a snapshot entry of node n may hold
Users(n) ==
    IF n = abc
    THEN {[id |-> n, longName |-> Alice, hwModel |-> TBEAM],
          [id |-> n, longName |-> Bob, hwModel |-> TLORA]}
    ELSE {[id |-> n, longName |-> Carol, hwModel |-> TLORA]}

Positions == {[latitude |-> 1, longitude |-> 2]}

\* the 'lastHeard' values a snapshot entry of node n may hold
LastHeards(n) == IF n = abc THEN {1, 2} ELSE {1}

\* the snapshot entries of node n: the node number, which the radio library
\* gives every entry, and each other key present or not
NodeInfos(n) ==
    {[num |-> 1] @@ l @@ u @@ p :
        l \in (IF n = abc THEN {EmptyDict} ELSE {}) \cup {[lastHeard |-> t] : t \in LastHeards(n)},
        u \in {EmptyDict} \cup {[user |-> x] : x \in Users(n)},
        p \in {EmptyDict} \cup {[position |-> x] : x \in Positions}}

TextMessage(s) == [portnum |-> "TEXT_MESSAGE_APP", text |-> s]

PositionReport == [portnum |-> "POSITION_APP",
                   position |-> [latitude |-> 1, longitude |-> 2, altitude |-> 7]]

\* packet['decoded'], when present
Decodeds ==
    {TextMessage(s) : s \in MeshTexts}
    \cup {[portnum |-> "TEXT_MESSAGE_APP"], PositionReport, [portnum |-> "POSITION_APP"],
          [portnum |-> "NODEINFO_APP"], EmptyDict}

\* packet['rxTime'], the time the radio reports for a packet
RxTimes == {1, 2}

\* the decoded packets the radio connector delivers: every kind of packet from
\* node abc, broadcast or direct; some without a sender; some from node def;
\* some that carry the time of reception
Packets ==
    {[fromId |-> abc, rxSnr |-> 5] @@ t @@ d :
        t \in {[toId |-> BroadcastLiteral], [toId |-> def]},
        d \in {EmptyDict} \cup {[decoded |-> x] : x \in Decodeds}}
    \cup {[toId |-> BroadcastLiteral, rxSnr |-> 5] @@ d :
        d \in {EmptyDict} \cup {[decoded |-> x] : x \in {TextMessage(hello), TextMessage(ping),
                                                         PositionReport}}}
    \cup {[fromId |-> def, toId |-> BroadcastLiteral, decoded |-> x] :
        x \in {TextMessage(hello), PositionReport}}
    \cup {[fromId |-> abc, decoded |-> TextMessage(hello)]}
    \cup {[fromId |-> abc, toId |-> BroadcastLiteral, rxTime |-> t, decoded |-> x] :
        t \in RxTimes, x \in {TextMessage(hello), PositionReport}}

ChatIds == {-12, 12}

\* the chat-service updates: effective_chat.id, effective_user, message.text
Updates ==
    {[chat_id |-> c, first_name |-> <<"A", "l">>, text |-> t] @@ l :
        c \in ChatIds,
        t \in {<<"h", "i">>, <<"/", "s", "t", "a", "r", "t">>},
        l \in {EmptyDict, [last_name |-> <<"B", "o">>]}}
    \cup {[chat_id |-> c, first_name |-> <<"A", "l">>, text |-> t] :
        c \in ChatIds,
        t \in {<<"/", "n", "o", "d", "e", "s">>, foo}}

----------------------------------------------------------------------------
(* The node directory: MeshtasticDB over the pony entities. *)

\* what a Required(str) attribute accepts: pony rejects the empty string
Required(v) == v # <<>>

\* The result of a handler: the tables, what it did, the exception that left
\* it ("" when it returned) and the directory operation that raised ("" when
\* none did).
Result(n, m, l, o, e, f) ==
    [db_nodes |-> n, db_messages |-> m, db_locations |-> l, out |-> o, raised |-> e,
     failed |-> f]

\* node_record.lastHeard = last_heard, on the record found
UpdateRecord_Overwrite(node_record, node_info) ==
    [nodeName |-> Get(Get(node_info, "user", EmptyDict), "longName", node_record.nodeName),
     lastHeard |-> fromtimestamp(Get(node_info, "lastHeard", 0)),
     hwModel |-> Get(Get(node_info, "user", EmptyDict), "hwModel", node_record.hwModel)]

UpdateRecord(node_record, node_info) ==
    [node_record EXCEPT !.lastHeard = fromtimestamp(Get(node_info, "lastHeard", 0))]

\* get_node_record: the node table after the call, or the exception.
\* available: whether the sqlite file can be reached.
get_node_record(dbn, snapshot, node_id, available) ==
    IF ~available THEN [raised |-> "OperationalError", db_nodes |-> dbn]
    ELSE IF ~Has(snapshot, node_id)
    THEN \* node_info is None: node_info.get raises
         [raised |-> "AttributeError", db_nodes |-> dbn]
    ELSE LET node_info == snapshot[node_id]
             last_heard == fromtimestamp(Get(node_info, "lastHeard", 0))
             user == Get(node_info, "user", EmptyDict)
         IN  IF ~Has(dbn, node_id)
             THEN LET nodeName == Get(user, "longName", <<>>)
                      hwModel == Get(user, "hwModel", <<>>)
                  IN  IF Required(nodeName) /\ Required(hwModel)
                      THEN [raised |-> "",
                            db_nodes |-> Put(dbn, node_id,
                                [nodeName |-> nodeName, lastHeard |-> last_heard,
                                 hwModel |-> hwModel])]
                      ELSE [raised |-> "ValueError", db_nodes |-> dbn]
             ELSE [raised |-> "",
                   db_nodes |-> [dbn EXCEPT ![node_id] = UpdateRecord(@, node_info)]]

\* store_message without its db_session: what get_node_record wrote stays
\* when the message record is refused
store_message_NoSession(dbn, dbm, snapshot, packet, now, available) ==
    LET from_id == Get(packet, "fromId", PyNone)
        got == get_node_record(dbn, snapshot, from_id, available)
    IN  IF got.raised # "" THEN [raised |-> got.raised, db_nodes |-> dbn, db_messages |-> dbm]
        ELSE IF ~Has(packet, "decoded")
        THEN [raised |-> "AttributeError", db_nodes |-> got.db_nodes, db_messages |-> dbm]
        ELSE LET message == Get(packet.decoded, "text", <<>>)
             IN  IF ~Required(message)
                 THEN [raised |-> "ValueError", db_nodes |-> got.db_nodes, db_messages |-> dbm]
                 ELSE [raised |-> "",
                       db_nodes |-> got.db_nodes,
                       db_messages |-> Append(dbm,
                           [datetime |-> fromtimestamp(now), message |-> message,
                            node |-> from_id])]

\* store_message, one db_session: the node and message tables after it
\* committed, or the exception, which rolls the session back.
store_message(dbn, dbm, snapshot, packet, now, available) ==
    LET from_id == Get(packet, "fromId", PyNone)
        got == get_node_record(dbn, snapshot, from_id, available)
        rollback(e) == [raised |-> e, db_nodes |-> dbn, db_messages |-> dbm]
    IN  IF got.raised # "" THEN rollback(got.raised)
        ELSE IF ~Has(packet, "decoded") THEN rollback("AttributeError")
        ELSE LET message == Get(packet.decoded, "text", <<>>)
             IN  IF ~Required(message) THEN rollback("ValueError")
                 ELSE [raised |-> "",
                       db_nodes |-> got.db_nodes,
                       db_messages |-> Append(dbm,
                           [datetime |-> fromtimestamp(now), message |-> message,
                            node |-> from_id])]

\* store_location that keeps the last location only
store_location_Replace(dbn, dbl, snapshot, packet, now, available) ==
    LET from_id == Get(packet, "fromId", PyNone)
        got == get_node_record(dbn, snapshot, from_id, available)
        position == Get(Get(packet, "decoded", EmptyDict), "position", EmptyDict)
    IN  IF got.raised # ""
        THEN [raised |-> got.raised, db_nodes |-> dbn, db_locations |-> dbl]
        ELSE [raised |-> "",
              db_nodes |-> got.db_nodes,
              db_locations |->
                  <<[datetime |-> fromtimestamp(now),
                     altitude |-> Get(position, "altitude", 0),
                     batteryLevel |-> Get(position, "batteryLevel", 100),
                     latitude |-> Get(position, "latitude", 0),
                     longitude |-> Get(position, "longitude", 0),
                     rxSnr |-> Get(packet, "rxSnr", 0),
                     node |-> from_id]>>]

\* store_location, one db_session: the node and location tables after it
\* committed, or the exception, which rolls the session back.
store_location(dbn, dbl, snapshot, packet, now, available) ==
    LET from_id == Get(packet, "fromId", PyNone)
        got == get_node_record(dbn, snapshot, from_id, available)
        position == Get(Get(packet, "decoded", EmptyDict), "position", EmptyDict)
    IN  IF got.raised # ""
        THEN [raised |-> got.raised, db_nodes |-> dbn, db_locations |-> dbl]
        ELSE [raised |-> "",
              db_nodes |-> got.db_nodes,
              db_locations |-> Append(dbl,
                  [datetime |-> fromtimestamp(now),
                   altitude |-> Get(position, "altitude", 0),
                   batteryLevel |-> Get(position, "batteryLevel", 100),
                   latitude |-> Get(position, "latitude", 0),
                   longitude |-> Get(position, "longitude", 0),
                   rxSnr |-> Get(packet, "rxSnr", 0),
                   node |-> from_id])]

----------------------------------------------------------------------------
(* What a handler does, in order. *)

\* a transaction of the directory committed
Commit(table, node) == [kind |-> "commit", table |-> table, node |-> node]

\* interface.send_text(text, **kwargs)
SendText(text, kwargs) == [kind |-> "send_text", text |-> text, kwargs |-> kwargs]

\* interface.sendData(data, destinationId, portNum=, wantAck=, wantResponse=)
SendData(data, destinationId, portNum, wantAck, wantResponse) ==
    [kind |-> "sendData", data |-> data, destinationId |-> destinationId,
     portNum |-> portNum, wantAck |-> wantAck, wantResponse |-> wantResponse]

\* telegram_connection.send_message(chat_id=, text=)
SendMessage(chat_id, text) == [kind |-> "send_message", chat_id |-> chat_id, text |-> text]

\* context.bot.send_message(chat_id=, text=), the reply of a chat command
BotReply(chat_id, text) == [kind |-> "bot_reply", chat_id |-> chat_id, text |-> text]

----------------------------------------------------------------------------
(* The command processor. *)

\* haversine.haversine(a, b, unit=METERS) on the grid of Positions, in
\* millimetres (mean earth radius 6371.0088 km)
get_lat_lon_distance(latlon1, latlon2) ==
    CASE latlon1 = latlon2 -> 0
      [] {latlon1, latlon2} = {<<1, 1>>, <<1, 2>>} -> 111178144
      [] {latlon1, latlon2} = {<<1, 1>>, <<2, 1>>} -> 111195080
      [] {latlon1, latlon2} = {<<1, 1>>, <<2, 2>>} -> 157225649
      [] {latlon1, latlon2} = {<<1, 2>>, <<2, 1>>} -> 157225649
      [] {latlon1, latlon2} = {<<1, 2>>, <<2, 2>>} -> 111195080
      [] {latlon1, latlon2} = {<<2, 1>>, <<2, 2>>} -> 111127341

\* the keys of a dict in the order a for loop visits them
RECURSIVE Keys(_)
Keys(S) == IF S = {} THEN <<>>
           ELSE LET k == CHOOSE x \in S : TRUE IN <<k>> \o Keys(S \ {k})

\* Python truth of a coordinate: None (a missing key, 0 here) and 0 are false
Truthy(x) == x # 0

\* '{}: {}m'.format(long_name, distance)
DistanceLine(long_name, distance) ==
    Str(long_name) \o <<":", " ">> \o distance \o <<"m">>

\* the loop of process_distance_command without the test from_id == node_id
RECURSIVE DistanceReplies_WithSelf(_, _, _, _)
DistanceReplies_WithSelf(order, snapshot, from_id, mine) ==
    IF order = <<>> THEN <<>>
    ELSE LET node_info == snapshot[Head(order)]
             position == Get(node_info, "position", EmptyDict)
             latitude == Get(position, "latitude", 0)
             longitude == Get(position, "longitude", 0)
             user == Get(node_info, "user", EmptyDict)
             rest == DistanceReplies_WithSelf(Tail(order), snapshot, from_id, mine)
         IN  IF position = EmptyDict THEN rest
             ELSE IF ~(Truthy(latitude) /\ Truthy(longitude)) THEN rest
             ELSE IF user = EmptyDict THEN rest
             ELSE LET long_name == Get(user, "longName", <<>>)
                      distance == Round(get_lat_lon_distance(mine, <<latitude, longitude>>))
                  IN  <<SendText(DistanceLine(long_name, IntComma(distance)),
                                 [destinationId |-> from_id])>> \o rest

\* the body of the loop of process_distance_command for the nodes in order
RECURSIVE DistanceReplies(_, _, _, _)
DistanceReplies(order, snapshot, from_id, mine) ==
    IF order = <<>> THEN <<>>
    ELSE LET node_info == snapshot[Head(order)]
             position == Get(node_info, "position", EmptyDict)
             latitude == Get(position, "latitude", 0)
             longitude == Get(position, "longitude", 0)
             user == Get(node_info, "user", EmptyDict)
             rest == DistanceReplies(Tail(order), snapshot, from_id, mine)
         IN  IF position = EmptyDict THEN rest
             ELSE IF ~(Truthy(latitude) /\ Truthy(longitude)) THEN rest
             ELSE IF user = EmptyDict THEN rest
             ELSE IF from_id = Get(user, "id", <<>>) THEN rest
             ELSE LET long_name == Get(user, "longName", <<>>)
                      distance == Round(get_lat_lon_distance(mine, <<latitude, longitude>>))
                  IN  <<SendText(DistanceLine(long_name, IntComma(distance)),
                                 [destinationId |-> from_id])>> \o rest

\* process_distance_command without the test of the position: an entry with
\* no position is answered like one with no coordinates
process_distance_command_Unchecked(packet, snapshot) ==
    LET from_id == Get(packet, "fromId", PyNone)
        reply(text) == <<SendText(text, [destinationId |-> from_id])>>
        mynode_info == Get(snapshot, from_id, EmptyDict)
        position == Get(mynode_info, "position", EmptyDict)
        my_latitude == Get(position, "latitude", 0)
        my_longitude == Get(position, "longitude", 0)
    IN  IF mynode_info = EmptyDict
        THEN reply(<<"d", "i", "s", "t", "a", "n", "c", "e", " ", "e", "r", "r", ":", " ",
                     "n", "o", " ", "n", "o", "d", "e", " ", "i", "n", "f", "o">>)
        ELSE IF ~(Truthy(my_latitude) /\ Truthy(my_longitude))
        THEN reply(<<"d", "i", "s", "t", "a", "n", "c", "e", " ", "e", "r", "r", ":", " ",
                     "n", "o", " ", "l", "a", "t", "/", "l", "o", "n">>)
        ELSE DistanceReplies(Keys(DOMAIN snapshot), snapshot, from_id,
                             <<my_latitude, my_longitude>>)

\* process_distance_command: the sends it makes
process_distance_command(packet, snapshot) ==
    LET from_id == Get(packet, "fromId", PyNone)
        reply(text) == <<SendText(text, [destinationId |-> from_id])>>
        mynode_info == Get(snapshot, from_id, EmptyDict)
        position == Get(mynode_info, "position", EmptyDict)
        my_latitude == Get(position, "latitude", 0)
        my_longitude == Get(position, "longitude", 0)
    IN  IF mynode_info = EmptyDict
        THEN reply(<<"d", "i", "s", "t", "a", "n", "c", "e", " ", "e", "r", "r", ":", " ",
                     "n", "o", " ", "n", "o", "d", "e", " ", "i", "n", "f", "o">>)
        ELSE IF position = EmptyDict
        THEN reply(<<"d", "i", "s", "t", "a", "n", "c", "e", " ", "e", "r", "r", ":", " ",
                     "n", "o", " ", "p", "o", "s", "i", "t", "i", "o", "n">>)
        ELSE IF ~(Truthy(my_latitude) /\ Truthy(my_longitude))
        THEN reply(<<"d", "i", "s", "t", "a", "n", "c", "e", " ", "e", "r", "r", ":", " ",
                     "n", "o", " ", "l", "a", "t", "/", "l", "o", "n">>)
        ELSE DistanceReplies(Keys(DOMAIN snapshot), snapshot, from_id,
                             <<my_latitude, my_longitude>>)

\* process_ping_command: the send it makes
process_ping_command(packet) ==
    <<SendData(<<"t", "e", "s", "t", " ", "s", "t", "r", "i", "n", "g">>,
               MESHTASTIC_BROADCAST_ADDR, "REPLY_APP", TRUE, TRUE)>>

\* process_meshtastic_command with msg == '/distance' and msg == '/ping' in
\* the place of msg.startswith
process_meshtastic_command_Exact(packet, snapshot) ==
    LET from_id == Get(packet, "fromId", PyNone)
        msg == Get(packet.decoded, "text", <<>>)
    IN  IF msg = <<"/", "d", "i", "s", "t", "a", "n", "c", "e">>
        THEN process_distance_command(packet, snapshot)
        ELSE IF msg = <<"/", "p", "i", "n", "g">>
        THEN process_ping_command(packet)
        ELSE <<SendText(<<"u", "n", "k", "n", "o", "w", "n", " ",
                          "c", "o", "m", "m", "a", "n", "d">>,
                        [destinationId |-> from_id])>>

\* process_meshtastic_command: the sends of the handler the text selects
process_meshtastic_command(packet, snapshot) ==
    LET from_id == Get(packet, "fromId", PyNone)
        msg == Get(packet.decoded, "text", <<>>)
    IN  IF StartsWith(msg, <<"/", "d", "i", "s", "t", "a", "n", "c", "e">>)
        THEN process_distance_command(packet, snapshot)
        ELSE IF StartsWith(msg, <<"/", "p", "i", "n", "g">>)
        THEN process_ping_command(packet)
        ELSE <<SendText(<<"u", "n", "k", "n", "o", "w", "n", " ",
                          "c", "o", "m", "m", "a", "n", "d">>,
                        [destinationId |-> from_id])>>

----------------------------------------------------------------------------
(* The relay router. *)

\* the scope filter of on_receive: to_id != '^all' returns
IsBroadcast_Any(to_id) == TRUE

IsBroadcast(to_id) == to_id = BroadcastLiteral

\* on_receive: the tables after it, what it did in order, and the exception
\* that left it.  Each store is a db_session of its own, committed when the
\* store returns and before anything is sent; the tables after a store that
\* raised are those the store left.
on_receive(packet, snapshot, dbn, dbm, dbl, now, available) ==
    LET to_id == Get(packet, "toId", PyNone)
        from_id == Get(packet, "fromId", PyNone)
        same(o, e, f) == Result(dbn, dbm, dbl, o, e, f)
    IN  IF ~IsBroadcast(to_id) THEN same(<<>>, "", "")
        ELSE IF ~Has(packet, "decoded")
        THEN \* decoded is None: decoded.get raises
             same(<<>>, "AttributeError", "")
        ELSE LET decoded == packet.decoded
                 portnum == Get(decoded, "portnum", "None")
             IN  IF portnum # "TEXT_MESSAGE_APP"
                 THEN IF portnum = "POSITION_APP"
                      THEN LET st == store_location(dbn, dbl, snapshot, packet, now, available)
                           IN  IF st.raised # ""
                               THEN Result(st.db_nodes, dbm, st.db_locations,
                                           <<>>, st.raised, "store_location")
                               ELSE Result(st.db_nodes, dbm, st.db_locations,
                                           <<Commit("location", from_id)>>, "", "")
                      ELSE same(<<>>, "", "")
                 ELSE LET st == store_message(dbn, dbm, snapshot, packet, now, available)
                          stored(o, e) == Result(st.db_nodes, st.db_messages, dbl,
                                                 <<Commit("message", from_id)>> \o o, e, "")
                          node_info == Get(snapshot, from_id, EmptyDict)
                          msg == Get(decoded, "text", <<>>)
                      IN  IF st.raised # ""
                          THEN Result(st.db_nodes, st.db_messages, dbl,
                                      <<>>, st.raised, "store_message")
                          ELSE IF Has(snapshot, from_id) /\ ~Has(node_info, "user")
                          THEN \* user_info is None: user_info.get raises
                               stored(<<>>, "AttributeError")
                          ELSE LET long_name ==
                                       IF Has(snapshot, from_id)
                                       THEN Get(node_info.user, "longName", PyNone)
                                       ELSE from_id
                               IN  IF StartsWith(msg, <<"/">>)
                                   THEN stored(process_meshtastic_command(packet, snapshot), "")
                                   ELSE stored(<<SendMessage(meshtastic_room,
                                                             Format(long_name, msg))>>, "")

----------------------------------------------------------------------------
(* The outbound bridge. *)

\* the room test of echo: str(update.effective_chat.id) against str(the room)
InRoom_Any(chat_id) == TRUE

InRoom(chat_id) == IntToStr(chat_id) = Str(meshtastic_room)

\* echo without the last name
echo_FirstNameOnly(update) ==
    IF ~InRoom(update.chat_id) THEN <<>>
    ELSE <<SendText(Format(update.first_name, update.text), EmptyDict)>>

\* TelegramBot.echo: the sends it makes
echo(update) ==
    IF ~InRoom(update.chat_id) THEN <<>>
    ELSE LET full_user ==
                 IF Has(update, "last_name")
                 THEN update.first_name \o <<" ">> \o update.last_name
                 ELSE update.first_name
         IN  <<SendText(Format(full_user, update.text), EmptyDict)>>

\* TelegramBot.start: the reply it sends
start(update) ==
    <<BotReply(update.chat_id,
               <<"I", "'", "m", " ", "a", " ", "b", "o", "t", ",", " ", "p", "l", "e", "a",
                 "s", "e", " ", "t", "a", "l", "k", " ", "t", "o", " ", "m", "e", "!">>)>>

\* interface.showNodes(includeSelf=False): the table of the radio library,
\* represented by the nodes it lists
showNodes(snapshot) == [table |-> DOMAIN snapshot]

\* TelegramBot.nodes, the handler of '/nodes': the reply it sends
node_handler(update, snapshot) == <<BotReply(update.chat_id, showNodes(snapshot))>>

\* Filters.command without effect: no text counts as a command
IsCommand_Never(text) == FALSE

\* Filters.command: the text is a bot command
IsCommand(text) == StartsWith(text, <<"/">>)

\* CommandHandler(command, ...): the text is that command, with or without arguments
IsCommandNamed(text, command) ==
    \/ text = <<"/">> \o command
    \/ StartsWith(text, <<"/">> \o command \o <<" ">>)

\* a dispatcher that hands the update to its handler twice
dispatch_Redeliver(update, snapshot) ==
    IF IsCommandNamed(update.text, <<"s", "t", "a", "r", "t">>)
    THEN start(update) \o start(update)
    ELSE IF IsCommandNamed(update.text, <<"n", "o", "d", "e", "s">>)
    THEN node_handler(update, snapshot) \o node_handler(update, snapshot)
    ELSE IF ~IsCommand(update.text) THEN echo(update) \o echo(update)
    ELSE <<>>

\* the dispatcher with the handlers TelegramBot.__init__ adds, in the order
\* it adds them: start, nodes, echo; the first handler that takes the update
\* runs, and an update no handler takes is dropped
dispatch(update, snapshot) ==
    IF IsCommandNamed(update.text, <<"s", "t", "a", "r", "t">>) THEN start(update)
    ELSE IF IsCommandNamed(update.text, <<"n", "o", "d", "e", "s">>)
    THEN node_handler(update, snapshot)
    ELSE IF ~IsCommand(update.text) THEN echo(update)
    ELSE <<>>

----------------------------------------------------------------------------
(* The state machine. *)

\* The snapshot when the bot is constructed: the radio connector has read the
\* node list of the device, which is empty or holds node abc.
InitialNodes ==
    {EmptyDict,
     [n \in {abc} |-> [num |-> 1, lastHeard |-> 1,
                       user |-> [id |-> abc, longName |-> Alice, hwModel |-> TBEAM],
                       position |-> [latitude |-> 1, longitude |-> 2]]]}

Init ==
    /\ nodes \in InitialNodes
    /\ db_nodes = EmptyDict
    /\ db_messages = <<>>
    /\ db_locations = <<>>
    /\ clock = 0
    /\ ev = [kind |-> "init"]
    /\ out = <<>>
    /\ raised = ""
    /\ failed = ""

\* the radio connector adds or replaces the snapshot entry of node n
NodeUpdated(n, info) ==
    /\ nodes' = Put(nodes, n, info)
    /\ ev' = [kind |-> "node_updated"]
    /\ out' = <<>>
    /\ raised' = ""
    /\ failed' = ""
    /\ clock < MaxClock
    /\ clock' = clock + 1
    /\ UNCHANGED <<db_nodes, db_messages, db_locations>>

\* the radio connector drops the snapshot entry of node n
NodeRemoved(n) ==
    /\ n \in DOMAIN nodes
    /\ nodes' = [k \in DOMAIN nodes \ {n} |-> nodes[k]]
    /\ ev' = [kind |-> "node_updated"]
    /\ out' = <<>>
    /\ raised' = ""
    /\ failed' = ""
    /\ clock < MaxClock
    /\ clock' = clock + 1
    /\ UNCHANGED <<db_nodes, db_messages, db_locations>>

\* pubsub delivers packet p to on_receive
Receive(p, available) ==
    /\ clock < MaxClock
    /\ clock' = clock + 1
    /\ LET r == on_receive(p, nodes, db_nodes, db_messages, db_locations, clock', available)
       IN  /\ db_nodes' = r.db_nodes
           /\ db_messages' = r.db_messages
           /\ db_locations' = r.db_locations
           /\ out' = r.out
           /\ raised' = r.raised
           /\ failed' = r.failed
    /\ ev' = [kind |-> "receive", packet |-> p]
    /\ UNCHANGED nodes

\* the chat service delivers update u to the dispatcher
TelegramUpdate(u) ==
    /\ out' = dispatch(u, nodes)
    /\ raised' = ""
    /\ failed' = ""
    /\ ev' = [kind |-> "update", update |-> u]
    /\ clock < MaxClock
    /\ clock' = clock + 1
    /\ UNCHANGED <<nodes, db_nodes, db_messages, db_locations>>

Next ==
    \/ \E n \in NodeIds : \E info \in NodeInfos(n) : NodeUpdated(n, info)
    \/ \E n \in NodeIds : NodeRemoved(n)
    \/ \E p \in Packets : \E available \in BOOLEAN : Receive(p, available)
    \/ \E u \in Updates : TelegramUpdate(u)

Spec == Init /\ [][Next]_vars

----------------------------------------------------------------------------
(* The command processor on its own: process_meshtastic_command applied to a
   command packet of node abc under every snapshot of three nodes. *)

ghi == <<"!", "g", "h", "i">>

Dave == <<"D", "a", "v", "e">>

CommandNodeIds == {abc, def, ghi}

\* the 'position' dicts of the entry of node n: empty, without coordinates,
\* with one coordinate, with both
CommandPositions(n) ==
    IF n = abc
    THEN {EmptyDict, [altitude |-> 7], [latitude |-> 1],
          [latitude |-> 1, longitude |-> 2]}
    ELSE IF n = def
    THEN {[altitude |-> 7], [latitude |-> 1, longitude |-> 1],
          [latitude |-> 2, longitude |-> 2]}
    ELSE {[latitude |-> 2, longitude |-> 1]}

\* the 'user' dict of the entry of node n
CommandUser(n) ==
    [id |-> n,
     longName |-> (IF n = abc THEN Alice ELSE IF n = def THEN Carol ELSE Dave),
     hwModel |-> TBEAM]

\* the snapshot entries of node n: the node number, and the user and the
\* position present or not
CommandNodeInfos(n) ==
    {[num |-> 1] @@ u @@ p :
        u \in {EmptyDict, [user |-> CommandUser(n)]},
        p \in {EmptyDict} \cup {[position |-> x] : x \in CommandPositions(n)}}

\* interface.nodes: any of the three nodes present, with any of its entries
CommandSnapshots ==
    {a @@ d @@ g :
        a \in {EmptyDict} \cup {[n \in {abc} |-> x] : x \in CommandNodeInfos(abc)},
        d \in {EmptyDict} \cup {[n \in {def} |-> x] : x \in CommandNodeInfos(def)},
        g \in {EmptyDict} \cup {[n \in {ghi} |-> x] : x \in CommandNodeInfos(ghi)}}

\* the texts of the command packets: they start with '/'
CommandTexts ==
    {<<"/", "d", "i", "s", "t", "a", "n", "c", "e">>,
     <<"/", "d", "i", "s", "t", "a", "n", "c", "e", "x">>,
     distance_please,
     <<"/", "D", "i", "s", "t", "a", "n", "c", "e">>,
     ping,
     <<"/", "p", "i", "n", "g", "s">>,
     <<"/", "P", "I", "N", "G">>,
     foo,
     <<"/">>}

\* the packets on_receive hands to process_meshtastic_command
CommandPackets ==
    {[fromId |-> abc, toId |-> BroadcastLiteral, decoded |-> TextMessage(t)] :
        t \in CommandTexts}

CommandInit ==
    /\ nodes \in CommandSnapshots
    /\ db_nodes = EmptyDict
    /\ db_messages = <<>>
    /\ db_locations = <<>>
    /\ clock = 0
    /\ ev = [kind |-> "init"]
    /\ out = <<>>
    /\ raised = ""
    /\ failed = ""

\* self.process_meshtastic_command(packet, interface)
Command(p) ==
    /\ out' = process_meshtastic_command(p, nodes)
    /\ ev' = [kind |-> "command", packet |-> p]
    /\ raised' = ""
    /\ failed' = ""
    /\ UNCHANGED <<nodes, db_nodes, db_messages, db_locations, clock>>

CommandNext == \E p \in CommandPackets : Command(p)

CommandSpec == CommandInit /\ [][CommandNext]_vars

----------------------------------------------------------------------------
(* process_distance_command step by step, while the radio connector, which
   owns interface.nodes and runs on a thread of its own, writes to it.  The
   handler holds no copy and no lock: it reads the dict at line 550 and
   iterates over it at lines 563-564.  A step of the handler is the code
   between two reads of the dict; ev holds the position of the handler, the
   dict's entries in insertion order (a deleted entry is None), the
   iterator (its index, and the size of the dict when it was made), the
   requester's coordinates, and the values the dict had during the call. *)

\* the entries of node n the connector writes during the call
LiveNodeInfos(n) ==
    {[num |-> 1, user |-> CommandUser(n), position |-> x] :
        x \in IF n = abc THEN {[latitude |-> 1, longitude |-> 2]}
              ELSE IF n = def THEN {[latitude |-> 1, longitude |-> 1],
                                    [latitude |-> 2, longitude |-> 2]}
              ELSE {[latitude |-> 2, longitude |-> 1]}}

\* interface.nodes when the handler is called: abc and def, present or not
LiveSnapshots ==
    {a @@ d :
        a \in {EmptyDict} \cup {[n \in {abc} |-> x] : x \in LiveNodeInfos(abc)},
        d \in {EmptyDict} \cup {[n \in {def} |-> x] : x \in LiveNodeInfos(def)}}

\* the packet of the call: '/distance' of node abc
DistancePacket ==
    [fromId |-> abc, toId |-> BroadcastLiteral,
     decoded |-> TextMessage(<<"/", "d", "i", "s", "t", "a", "n", "c", "e">>)]

LiveInit ==
    /\ nodes \in LiveSnapshots
    /\ db_nodes = EmptyDict
    /\ db_messages = <<>>
    /\ db_locations = <<>>
    /\ clock = 0
    /\ ev = [kind |-> "distance", pc |-> "call", packet |-> DistancePacket,
             entries |-> Keys(DOMAIN nodes), i |-> 0, used |-> 0, mine |-> <<0, 0>>,
             instants |-> {nodes}]
    /\ out = <<>>
    /\ raised = ""
    /\ failed = ""

\* lines 549-563: the requester is read from the dict; an error reply and
\* return, or the iterator of 'for node in interface.nodes' is made
DistanceEnter ==
    /\ ev.kind = "distance" /\ ev.pc = "call"
    /\ LET mynode_info == Get(nodes, Get(ev.packet, "fromId", PyNone), EmptyDict)
           position == Get(mynode_info, "position", EmptyDict)
           my_latitude == Get(position, "latitude", 0)
           my_longitude == Get(position, "longitude", 0)
       IN  IF Truthy(my_latitude) /\ Truthy(my_longitude)
           THEN /\ ev' = [ev EXCEPT !.pc = "loop", !.i = 0,
                                    !.used = Cardinality(DOMAIN nodes),
                                    !.mine = <<my_latitude, my_longitude>>]
                /\ out' = out
           ELSE /\ ev' = [ev EXCEPT !.pc = "return"]
                /\ out' = process_distance_command(ev.packet, nodes)
    /\ UNCHANGED <<nodes, db_nodes, db_messages, db_locations, clock, raised, failed>>

\* lines 563-582, one turn of the loop: the iterator raises RuntimeError when
\* the size of the dict is not the one it was made with, ends after the last
\* entry, or gives the next entry that is not deleted, for which the body runs
DistanceIterate ==
    /\ ev.kind = "distance" /\ ev.pc = "loop"
    /\ LET left == {j \in (ev.i + 1)..Len(ev.entries) : ev.entries[j] # PyNone}
       IN  IF Cardinality(DOMAIN nodes) # ev.used
           THEN /\ raised' = "RuntimeError"
                /\ ev' = [ev EXCEPT !.pc = "return"]
                /\ out' = out
           ELSE IF left = {}
           THEN /\ raised' = raised
                /\ ev' = [ev EXCEPT !.pc = "return"]
                /\ out' = out
           ELSE LET j == CHOOSE x \in left : \A y \in left : x <= y
                IN  /\ raised' = raised
                    /\ ev' = [ev EXCEPT !.i = j]
                    /\ out' = out \o DistanceReplies(<<ev.entries[j]>>, nodes,
                                                      Get(ev.packet, "fromId", PyNone),
                                                      ev.mine)
    /\ UNCHANGED <<nodes, db_nodes, db_messages, db_locations, clock, failed>>

\* the connector's thread sets the entry of node n during the call: a new
\* key goes behind the entries of the dict
LiveNodeUpdated(n, info) ==
    /\ ev.kind = "distance" /\ ev.pc # "return"
    /\ clock < MaxClock
    /\ clock' = clock + 1
    /\ nodes' = Put(nodes, n, info)
    /\ ev' = [ev EXCEPT !.entries = IF Has(nodes, n) THEN @ ELSE Append(@, n),
                        !.instants = @ \cup {nodes'}]
    /\ UNCHANGED <<db_nodes, db_messages, db_locations, out, raised, failed>>

\* the connector's thread deletes the entry of node n during the call
LiveNodeRemoved(n) ==
    /\ ev.kind = "distance" /\ ev.pc # "return"
    /\ clock < MaxClock
    /\ clock' = clock + 1
    /\ n \in DOMAIN nodes
    /\ nodes' = [k \in DOMAIN nodes \ {n} |-> nodes[k]]
    /\ ev' = [ev EXCEPT !.entries = [j \in DOMAIN @ |-> IF @[j] = n THEN PyNone ELSE @[j]],
                        !.instants = @ \cup {nodes'}]
    /\ UNCHANGED <<db_nodes, db_messages, db_locations, out, raised, failed>>

LiveNext ==
    \/ DistanceEnter
    \/ DistanceIterate
    \/ \E n \in CommandNodeIds : \E info \in LiveNodeInfos(n) : LiveNodeUpdated(n, info)
    \/ \E n \in CommandNodeIds : LiveNodeRemoved(n)

LiveSpec == LiveInit /\ [][LiveNext]_vars

----------------------------------------------------------------------------
(* The vocabulary of the properties. *)

\* the last event was a packet handled by on_receive
Received == ev.kind = "receive"

\* the last event was a chat update handled by the dispatcher
Updated == ev.kind = "update"

Last(seq) == seq[Len(seq)]

\* p is addressed to the broadcast address '^all'
ToAll(p) == Has(p, "toId") /\ p.toId = <<"^", "a", "l", "l">>

\* p is a broadcast packet on the text port
BroadcastText(p) ==
    ToAll(p) /\ Has(p, "decoded") /\ Has(p.decoded, "portnum")
    /\ p.decoded.portnum = "TEXT_MESSAGE_APP"

\* p is a broadcast packet on the text port that carries text
BroadcastTextOf(p) == BroadcastText(p) /\ Has(p.decoded, "text")

IsRadioSend(e) == e.kind \in {"send_text", "sendData"}

IsChatSend(e) == e.kind = "send_message"

IsCommit(e) == e.kind = "commit"

\* the sends to the radio among the entries of o
RadioSends(o) == SelectSeq(o, IsRadioSend)

\* the sends to the chat service among the entries of o
ChatSends(o) == SelectSeq(o, IsChatSend)

\* the node a radio send is addressed to; the radio broadcasts a text sent
\* with no destinationId
Destination(e) ==
    IF e.kind = "send_text"
    THEN Get(e.kwargs, "destinationId", <<"^", "a", "l", "l">>)
    ELSE e.destinationId

\* the last event was a command packet handled by process_meshtastic_command
Commanded == ev.kind = "command"

\* t occurs in s
Contains(s, t) ==
    \E i \in 0..(Len(s) - Len(t)) : SubSeq(s, i + 1, i + Len(t)) = t

\* p is a text packet whose text starts with '/distance'
DistanceCommand(p) ==
    StartsWith(p.decoded.text, <<"/", "d", "i", "s", "t", "a", "n", "c", "e">>)

\* p is a text packet whose text starts with '/ping'
PingCommand(p) == StartsWith(p.decoded.text, <<"/", "p", "i", "n", "g">>)

\* the snapshot entry of node n holds a position
HasPosition(n) ==
    Has(nodes, n) /\ Has(nodes[n], "position") /\ nodes[n].position # EmptyDict

\* the snapshot entry of node n holds a position with latitude and longitude
Located(n) ==
    /\ HasPosition(n)
    /\ Has(nodes[n].position, "latitude")
    /\ Has(nodes[n].position, "longitude")

\* the snapshot entry of node n holds a user identity that is not empty
HasIdentity(n) ==
    Has(nodes, n) /\ Has(nodes[n], "user") /\ nodes[n].user # EmptyDict

\* e is a text sent to node n alone
ReplyTo(e, n) ==
    e.kind = "send_text" /\ Has(e.kwargs, "destinationId") /\ e.kwargs.destinationId = n

\* d is a length in metres as the replies print it: digits in groups
IsDistance(d) ==
    /\ d # <<>>
    /\ \A i \in 1..Len(d) :
          d[i] \in {"0", "1", "2", "3", "4", "5", "6", "7", "8", "9", ","}

\* e is the reply line '<long name of node n>: <distance>m'
PeerLine(e, n) ==
    LET head == Get(nodes[n].user, "longName", <<>>) \o <<":", " ">>
    IN  /\ e.kind = "send_text"
        /\ StartsWith(e.text, head)
        /\ Len(e.text) > Len(head) + 1
        /\ Last(e.text) = "m"
        /\ IsDistance(SubSeq(e.text, Len(head) + 1, Len(e.text) - 1))

----------------------------------------------------------------------------
(* C1..C10 *)

\* C1: a packet whose destination is not '^all' causes no directory write
\* (no node, message or location record created or changed) and no send to
\* the chat service or the radio, whatever its port, text or sender.
C1_BroadcastFilter ==
    [][(ev'.kind = "receive" /\ ~ToAll(ev'.packet))
        => /\ db_nodes' = db_nodes
           /\ db_messages' = db_messages
           /\ db_locations' = db_locations
           /\ out' = <<>>]_vars

\* A direct text packet from a node the snapshot resolves was handled and
\* nothing was done.
C1_Witness ==
    /\ Received
    /\ ev.packet = [fromId |-> abc, toId |-> def, rxSnr |-> 5,
                    decoded |-> TextMessage(hello)]
    /\ Has(nodes, abc) /\ Has(nodes[abc], "user")
    /\ out = <<>> /\ db_messages = <<>> /\ db_nodes = EmptyDict

\* C2: a broadcast text packet that is no command, from a sender the snapshot
\* does not hold, is stored as one message record linked to a node record of
\* the sender and forwarded once to the chat service as '<sender id>: <text>'
\* (the storage being reachable).
C2_UnresolvedSenderRelay ==
    (/\ Received
     /\ raised # "OperationalError"
     /\ BroadcastTextOf(ev.packet)
     /\ Has(ev.packet, "fromId")
     /\ ~StartsWith(ev.packet.decoded.text, <<"/">>)
     /\ ~Has(nodes, ev.packet.fromId))
    => /\ out = <<Commit("message", ev.packet.fromId),
                  SendMessage(meshtastic_room,
                      ev.packet.fromId \o <<":", " ">> \o ev.packet.decoded.text)>>
       /\ db_messages # <<>>
       /\ Last(db_messages).node = ev.packet.fromId
       /\ Last(db_messages).message = ev.packet.decoded.text
       /\ Has(db_nodes, ev.packet.fromId)

\* C3: every broadcast text packet is stored as a message record, and the
\* record is committed before any reply or forward the packet causes (the
\* storage being reachable).
C3_PersistBeforeDispatch ==
    (Received /\ raised # "OperationalError" /\ BroadcastText(ev.packet))
    => /\ \E j \in 1..Len(out) : IsCommit(out[j]) /\ out[j].table = "message"
       /\ \A i \in 1..Len(out) :
            (IsRadioSend(out[i]) \/ IsChatSend(out[i]))
            => \E j \in 1..(i - 1) : IsCommit(out[j]) /\ out[j].table = "message"

\* C4: a broadcast text packet of a node whose text starts with '/' is handed
\* to the command processor and nothing is sent to the chat service (the storage
\* being reachable).
C4_CommandsNotForwarded ==
    (/\ Received
     /\ raised # "OperationalError"
     /\ BroadcastTextOf(ev.packet)
     /\ Has(ev.packet, "fromId")
     /\ StartsWith(ev.packet.decoded.text, <<"/">>))
    => /\ raised = ""
       /\ out = <<Commit("message", ev.packet.fromId)>>
                \o process_meshtastic_command(ev.packet, nodes)
       /\ ChatSends(out) = <<>>

\* C5: every radio send the command processor makes for a packet is addressed
\* to the node that sent the packet, never to the broadcast address.
C5_RepliesSenderDirected ==
    Received
    => \A i \in 1..Len(out) :
           IsRadioSend(out[i])
           => /\ Has(ev.packet, "fromId")
              /\ Destination(out[i]) = ev.packet.fromId
              /\ Destination(out[i]) # <<"^", "a", "l", "l">>

\* C6: once a node record exists, a later upsert of the same node id leaves
\* nodeName and hwModel as first written, whatever name and model the snapshot
\* then offers, and sets lastHeard to the time the upsert is given.
C6_FirstWriteWins ==
    [][\A n \in DOMAIN db_nodes :
          /\ n \in DOMAIN db_nodes'
          /\ db_nodes'[n].nodeName = db_nodes[n].nodeName
          /\ db_nodes'[n].hwModel = db_nodes[n].hwModel
          /\ (/\ ev'.kind = "receive"
              /\ out' # <<>>
              /\ IsCommit(out'[1])
              /\ out'[1].node = n)
             => db_nodes'[n].lastHeard = Get(nodes[n], "lastHeard", 0)
          /\ db_nodes'[n].lastHeard # db_nodes[n].lastHeard
             => (ev'.kind = "receive" /\ out' # <<>> /\ IsCommit(out'[1])
                 /\ out'[1].node = n)]_vars

\* A second upsert of node abc was made while the snapshot offered another
\* name and model than the record holds, and the record kept the first ones.
C6_Witness ==
    /\ Received
    /\ out # <<>> /\ IsCommit(out[1]) /\ out[1].node = abc
    /\ Has(nodes, abc) /\ Has(nodes[abc], "user")
    /\ nodes[abc].user.longName = Bob /\ nodes[abc].user.hwModel = TLORA
    /\ Has(db_nodes, abc)
    /\ db_nodes[abc] = [nodeName |-> Alice, hwModel |-> TBEAM, lastHeard |-> 2]
    /\ Len(db_messages) + Len(db_locations) = 2

\* C7: the lastHeard of a node record never decreases.
C7_LastHeardMonotone ==
    [][\A n \in DOMAIN db_nodes :
          n \in DOMAIN db_nodes' /\ db_nodes'[n].lastHeard >= db_nodes[n].lastHeard]_vars

\* p lacks a field the router needs: the decoded payload, the port, the text
\* of a text packet, or the sender id
Malformed(p) ==
    \/ ~Has(p, "decoded")
    \/ ~Has(p.decoded, "portnum")
    \/ (p.decoded.portnum = "TEXT_MESSAGE_APP" /\ ~Has(p.decoded, "text"))
    \/ ~Has(p, "fromId")

\* C8: a packet that lacks a required field raises nothing out of on_receive
\* and causes no commit, no reply and no forward.
C8_MalformedIsolated ==
    (Received /\ Malformed(ev.packet)) => (raised = "" /\ out = <<>>)

\* C9: when store_message or store_location fails, on_receive sends nothing
\* and the failure does not leave on_receive.
C9_DirectoryFailureContained ==
    (Received /\ failed # "") => (raised = "" /\ out = <<>>)

\* C10: echo sends to the radio only for a chat message of the configured
\* room, '-12': a message of any other chat causes no radio send.
C10_RoomBinding ==
    (Updated /\ ev.update.chat_id # -12) => RadioSends(out) = <<>>

\* A text message that is no command came from another chat than the room
\* and nothing was sent.
C10_Witness ==
    /\ Updated
    /\ ev.update.chat_id = 12
    /\ ev.update.text = <<"h", "i">>
    /\ out = <<>>

----------------------------------------------------------------------------
(* C11..C20 *)

\* the one reply of a failed /distance: a text to the requester that carries
\* the text err and neither of the other two
ErrorReply(o, requester, err) ==
    /\ Len(o) = 1
    /\ ReplyTo(o[1], requester)
    /\ Contains(o[1].text, err)
    /\ \A other \in {<<"n", "o", " ", "n", "o", "d", "e", " ", "i", "n", "f", "o">>,
                      <<"n", "o", " ", "p", "o", "s", "i", "t", "i", "o", "n">>,
                      <<"n", "o", " ", "l", "a", "t", "/", "l", "o", "n">>} \ {err} :
          ~Contains(o[1].text, other)

\* C11: a /distance command whose requester is absent from the snapshot, or
\* whose entry has no position, or whose position lacks latitude or longitude,
\* is answered by exactly one text to the requester, which carries 'no node
\* info', 'no position' or 'no lat/lon' respectively; no peer line and no
\* broadcast is sent and nothing is raised.
C11_DistanceErrors ==
    (Commanded /\ DistanceCommand(ev.packet))
    => LET requester == ev.packet.fromId
       IN  /\ ~Has(nodes, requester)
               => ErrorReply(out, requester,
                             <<"n", "o", " ", "n", "o", "d", "e", " ", "i", "n", "f", "o">>)
           /\ (Has(nodes, requester) /\ ~HasPosition(requester))
               => ErrorReply(out, requester,
                             <<"n", "o", " ", "p", "o", "s", "i", "t", "i", "o", "n">>)
           /\ (HasPosition(requester) /\ ~Located(requester))
               => ErrorReply(out, requester,
                             <<"n", "o", " ", "l", "a", "t", "/", "l", "o", "n">>)
           /\ ~Located(requester) => raised = ""

\* A /distance of node abc was handled while the snapshot held other nodes
\* and not abc, and the one reply went to abc.
C11_Witness ==
    /\ Commanded
    /\ ev.packet.decoded.text = <<"/", "d", "i", "s", "t", "a", "n", "c", "e">>
    /\ ~Has(nodes, abc)
    /\ Located(def) /\ HasIdentity(def)
    /\ out = <<SendText(<<"d", "i", "s", "t", "a", "n", "c", "e", " ", "e", "r", "r", ":",
                           " ", "n", "o", " ", "n", "o", "d", "e", " ", "i", "n", "f", "o">>,
                         [destinationId |-> abc])>>

\* the replies are one line for each node of peers, each sent to the requester
\* alone, and nothing else
OneLineEach(o, requester, peers) ==
    /\ Len(o) = Cardinality(peers)
    /\ \A n \in peers :
          Cardinality({i \in 1..Len(o) : ReplyTo(o[i], requester) /\ PeerLine(o[i], n)}) = 1
    /\ \A i \in 1..Len(o) :
          \E n \in peers : ReplyTo(o[i], requester) /\ PeerLine(o[i], n)

C13_CommandDispatch ==
    Commanded
    => IF DistanceCommand(ev.packet)
       THEN out = process_distance_command(ev.packet, nodes)
       ELSE IF PingCommand(ev.packet)
       THEN Len(out) = 1 /\ out[1].kind = "sendData"
       ELSE /\ Len(out) = 1
            /\ ReplyTo(out[1], ev.packet.fromId)
            /\ out[1].text = <<"u", "n", "k", "n", "o", "w", "n", " ",
                               "c", "o", "m", "m", "a", "n", "d">>

\* '/distance please' of node abc was handled by the distance handler, which
\* answered with the line of def.
C13_Witness ==
    /\ Commanded
    /\ ev.packet.decoded.text = distance_please
    /\ Located(abc) /\ Located(def) /\ HasIdentity(def) /\ ~Has(nodes, ghi)
    /\ Len(out) = 1
    /\ ReplyTo(out[1], abc)
    /\ PeerLine(out[1], def)

\* C14: for a chat message of the configured room that echo handles, echo
\* makes exactly one radio text send; its body is the first name, then a space
\* and the last name when there is one, then ': ' and the text; it names no
\* destination and asks for no acknowledgement.
C14_EchoFormat ==
    (Updated /\ ev.update.chat_id = -12 /\ ~IsCommand(ev.update.text))
    => /\ Len(out) = 1
       /\ out[1].kind = "send_text"
       /\ out[1].text =
              (IF Has(ev.update, "last_name")
               THEN ev.update.first_name \o <<" ">> \o ev.update.last_name
               ELSE ev.update.first_name)
              \o <<":", " ">> \o ev.update.text
       /\ ~Has(out[1].kwargs, "destinationId")
       /\ ~Has(out[1].kwargs, "wantAck")

\* 'hi' of Al Bo in the room was sent to the radio as 'Al Bo: hi'.
C14_Witness ==
    /\ Updated
    /\ ev.update.chat_id = -12
    /\ Has(ev.update, "last_name")
    /\ out = <<SendText(<<"A", "l", " ", "B", "o", ":", " ", "h", "i">>, EmptyDict)>>

\* the name the forward of a packet of node n shows: the long name the
\* snapshot holds for n, the id n when it holds none
DisplayName(n) ==
    IF Has(nodes, n) /\ Has(nodes[n], "user") /\ Has(nodes[n].user, "longName")
    THEN nodes[n].user.longName
    ELSE n

\* C15: a broadcast text packet whose text does not start with '/' causes
\* exactly one send to the chat service, to the configured room, with the body
\* '<display name>: <text>', the display name being the long name of the
\* sender in the snapshot, or the sender id when the sender is absent or has
\* no user or long name; it causes no radio send (the storage being
\* reachable).
C15_ChatForward ==
    (/\ Received
     /\ raised # "OperationalError"
     /\ BroadcastTextOf(ev.packet)
     /\ Has(ev.packet, "fromId")
     /\ ~StartsWith(ev.packet.decoded.text, <<"/">>))
    => /\ ChatSends(out)
            = <<SendMessage(meshtastic_room,
                            DisplayName(ev.packet.fromId) \o <<":", " ">>
                                \o ev.packet.decoded.text)>>
       /\ RadioSends(out) = <<>>

\* the port of a packet that has a decoded payload
PortOf(p) == Get(p.decoded, "portnum", "None")

\* C16: a broadcast packet on the position port appends exactly one location
\* record of the sender and causes no message record and no send; a broadcast
\* packet on a port that is neither text nor position writes nothing to the
\* directory and sends nothing (the storage being reachable).
C16_PortClassification ==
    [][(/\ ev'.kind = "receive"
        /\ raised' # "OperationalError"
        /\ ToAll(ev'.packet)
        /\ Has(ev'.packet, "decoded")
        /\ Has(ev'.packet, "fromId"))
       => /\ PortOf(ev'.packet) = "POSITION_APP"
             => /\ Len(db_locations') = Len(db_locations) + 1
                /\ SubSeq(db_locations', 1, Len(db_locations)) = db_locations
                /\ Last(db_locations').node = ev'.packet.fromId
                /\ db_messages' = db_messages
                /\ ChatSends(out') = <<>>
                /\ RadioSends(out') = <<>>
          /\ PortOf(ev'.packet) \notin {"TEXT_MESSAGE_APP", "POSITION_APP"}
             => /\ db_nodes' = db_nodes
                /\ db_messages' = db_messages
                /\ db_locations' = db_locations
                /\ out' = <<>>]_vars

\* the records of table s are the first records of table t, unchanged
IsPrefix(s, t) == Len(s) <= Len(t) /\ SubSeq(t, 1, Len(s)) = s

\* C17: no event removes or changes a message record or a location record,
\* no event removes a node record, and the only field of a node record an
\* event changes is lastHeard.
C17_AppendOnly ==
    [][/\ IsPrefix(db_messages, db_messages')
       /\ IsPrefix(db_locations, db_locations')
       /\ \A n \in DOMAIN db_nodes :
             /\ n \in DOMAIN db_nodes'
             /\ [db_nodes'[n] EXCEPT !.lastHeard = db_nodes[n].lastHeard] = db_nodes[n]]_vars

\* The first event stored a record of node abc and the third a location of
\* abc, the two records are kept, and the lastHeard of the node record of abc
\* moved from 1 to 2.
C17_Witness ==
    /\ Len(db_messages) + Len(db_locations) = 2
    /\ db_locations # <<>>
    /\ Last(db_locations).datetime = 3
    /\ Has(db_nodes, abc)
    /\ db_nodes[abc].lastHeard = 2
    /\ \A i \in 1..Len(db_messages) : db_messages[i].datetime = 1
    /\ \A i \in 1..Len(db_locations) : db_locations[i].datetime \in {1, 3}

\* C19: after a broadcast text or position packet that reports its time is
\* stored, the lastHeard of the node record of the sender is the time the
\* packet reports.
C19_LastHeardFidelity ==
    (/\ Received
     /\ Has(ev.packet, "rxTime")
     /\ out # <<>>
     /\ IsCommit(out[1]))
    => /\ Has(db_nodes, ev.packet.fromId)
       /\ db_nodes[ev.packet.fromId].lastHeard = fromtimestamp(ev.packet.rxTime)

\* text ends with ': ' and body
Carries(text, body) ==
    /\ Len(text) >= Len(body) + 2
    /\ SubSeq(text, Len(text) - Len(body) - 1, Len(text)) = <<":", " ">> \o body

\* C20: a packet causes at most one send to the chat service and a chat
\* message at most one send to the radio, each made while its event is
\* handled and carrying the text of that event; no other event sends to the
\* chat service, and a snapshot change sends nothing: so the sends follow the
\* order of the events that caused them and none is repeated.
C20_AtMostOnceInOrder ==
    /\ Received
       => /\ Len(ChatSends(out)) <= 1
          /\ \A i \in 1..Len(out) :
                IsChatSend(out[i])
                => /\ BroadcastTextOf(ev.packet)
                   /\ Carries(out[i].text, ev.packet.decoded.text)
    /\ Updated
       => /\ Len(RadioSends(out)) <= 1
          /\ ChatSends(out) = <<>>
          /\ \A i \in 1..Len(out) :
                IsRadioSend(out[i]) => Carries(out[i].text, ev.update.text)
    /\ (~Received /\ ~Updated) => out = <<>>

\* 'hello' of node abc was forwarded by the second event and 'hello' of node
\* def by the third, each once.
C20_Witness ==
    /\ Received
    /\ Len(db_messages) = 2
    /\ db_messages[1].node = abc /\ db_messages[1].datetime = 2
    /\ db_messages[2].node = def /\ db_messages[2].datetime = 3
    /\ db_messages[1].message = hello
    /\ out = <<Commit("message", def),
               SendMessage(meshtastic_room,
                           <<"C", "a", "r", "o", "l", ":", " ", "h", "e", "l", "l", "o">>)>>

----------------------------------------------------------------------------
(* C21..C23 *)

\* the entries of sequence o
Range(o) == {o[i] : i \in 1..Len(o)}

\* C21: a /distance call during which the connector adds, removes or changes
\* entries of the snapshot does not fail, and the replies it has sent when it
\* returns are the replies of the handler for one of the values the snapshot
\* had during the call.
C21_PointInTimeReads ==
    (ev.kind = "distance" /\ ev.pc = "return")
    => /\ raised = ""
       /\ \E snapshot \in ev.instants :
             /\ Len(out) = Len(process_distance_command(ev.packet, snapshot))
             /\ Range(out) = Range(process_distance_command(ev.packet, snapshot))

\* C22: when store_message or store_location fails, at whatever step, the
\* directory is as it was before the packet: no node record is added, no
\* lastHeard is changed and no message or location record is added.
C22_StoreIsOneTransaction ==
    [][(ev'.kind = "receive" /\ failed' # "")
       => /\ db_nodes' = db_nodes
          /\ db_messages' = db_messages
          /\ db_locations' = db_locations]_vars

\* A text packet with no text of node abc was refused after the node record
\* of abc was found: the snapshot says lastHeard 2, the record still says 1
\* and the one message stored before is the only one.
C22_Witness ==
    /\ Received
    /\ failed = "store_message"
    /\ raised = "ValueError"
    /\ BroadcastText(ev.packet) /\ ~Has(ev.packet.decoded, "text")
    /\ Has(nodes, abc) /\ Has(nodes[abc], "user")
    /\ Get(nodes[abc], "lastHeard", 0) = 2
    /\ Has(db_nodes, abc) /\ db_nodes[abc].lastHeard = 1
    /\ Len(db_messages) = 1

\* C23: a chat message that is a command, '/start', '/nodes' or any other
\* text that starts with '/', causes no send to the radio, from whatever chat
\* it comes, the configured room included.
C23_ChatCommandsNotRelayed ==
    (Updated /\ StartsWith(ev.update.text, <<"/">>)) => RadioSends(out) = <<>>

\* '/foo', which no command handler takes, came from the configured room
\* and nothing was sent.
C23_Witness ==
    /\ Updated
    /\ ev.update.chat_id = -12
    /\ ev.update.text = foo
    /\ out = <<>>

====
